---------------------------- MODULE Spec2Model ----------------------------
(***************************************************************************)
(* RSA-accumulator device identity gateway.                                *)
(*                                                                         *)
(* The repository holds two gateway applications over the same accumulator *)
(* library (src/accum):                                                    *)
(*   "main"   : src/gateway/main.py, with chain_client.py and              *)
(*              supabase_db.py; administrative operations are proposed to  *)
(*              a multi-signature Safe and applied by /multisig/execute;   *)
(*   "routes" : src/gateway/api_routes.py, with accumulator_service.py     *)
(*              and blockchain.py; operations are applied inside the       *)
(*              request handler.                                           *)
(* A deployment runs one of them; the variable app records which.          *)
(* The group is scaled down to the parameters the repository's own tests   *)
(* use (N = 11 * 19, g = 4).                                               *)
(***************************************************************************)
EXTENDS Integers, Sequences, FiniteSets, TLC

\* ------------------------------------------------------------------------
\* Parameters
\* ------------------------------------------------------------------------
\* RSA factors of the test modulus (trapdoor_operations.py, p, q = 11, 19)
P_FACTOR == 11
Q_FACTOR == 19
N == P_FACTOR * Q_FACTOR
\* generator g = pow(2, 2, N)
g == (2 * 2) % N

\* number of device key pairs that exist in the model
NumKeys == 2
Keys == 1..NumKeys

\* hash_to_prime's min_bits, scaled down with the modulus
MIN_BITS == 3

\* ------------------------------------------------------------------------
\* Arithmetic (python built-ins used by the library)
\* ------------------------------------------------------------------------
RECURSIVE pow(_, _, _)
\* pow(b, e, m) for e >= 0, by square and multiply
pow(b, e, m) ==
    IF e = 0 THEN 1 % m
    ELSE IF e % 2 = 0
         THEN LET h == pow(b, e \div 2, m) IN (h * h) % m
         ELSE (b * pow(b, e - 1, m)) % m

RECURSIVE gcd(_, _)
\* math.gcd
gcd(a, b) == IF b = 0 THEN a ELSE gcd(b, a % b)

RECURSIVE bit_length(_)
\* int.bit_length
bit_length(n) == IF n = 0 THEN 0 ELSE 1 + bit_length(n \div 2)

RECURSIVE extended_gcd(_, _)
\* extended_gcd(a, b) = <<gcd, x, y>> with a*x + b*y = gcd
extended_gcd(a, b) ==
    IF a = 0 THEN <<b, 0, 1>>
    ELSE LET r == extended_gcd(b % a, a)
             x == r[3] - (b \div a) * r[2]
             y == r[2]
         IN <<r[1], x, y>>

\* the value standing for a raised exception or a None result
ERR == -1

\* a faulty inverse that hands back the Bezout coefficient without looking
\* at the gcd; C26 must tell it from modular_inverse
modular_inverse_unchecked(a, m) ==
    IF a <= 0 \/ m <= 0 THEN ERR
    ELSE IF a % m = 0 THEN ERR
    ELSE LET r == extended_gcd(a % m, m) IN ((r[2] % m) + m) % m

\* modular_inverse(a, m): a^{-1} mod m, ERR when it does not exist
modular_inverse(a, m) ==
    IF a <= 0 \/ m <= 0 THEN ERR
    ELSE IF a % m = 0 THEN ERR
    ELSE LET r == extended_gcd(a % m, m)
         IN IF r[1] # 1 THEN ERR ELSE ((r[2] % m) + m) % m

\* compute_lambda_n(p, q) = lcm(p-1, q-1)
compute_lambda_n(p, q) ==
    IF p <= 1 \/ q <= 1 THEN ERR
    ELSE ((p - 1) * (q - 1)) \div gcd(p - 1, q - 1)

\* settings.lambda_n
lambda_n == compute_lambda_n(P_FACTOR, Q_FACTOR)

\* ------------------------------------------------------------------------
\* Accumulator library (src/accum)
\* ------------------------------------------------------------------------
\* add_member(A, p, N) = A^p mod N
add_member(A, p, n) ==
    IF A <= 0 \/ p <= 0 \/ n <= 0 THEN ERR ELSE pow(A, p, n)

\* verify_membership(w, p, A, N)
verify_membership(w, p, A, n) ==
    IF w <= 0 \/ p <= 0 \/ A <= 0 \/ n <= 0 THEN FALSE
    ELSE IF w >= n \/ A >= n THEN FALSE
    ELSE pow(w, p, n) = A

\* a faulty recomputation that keeps the last prime of the list only; C24
\* must tell it from recompute_root
recompute_root_last(primes, n, gen) ==
    IF primes = <<>> THEN gen ELSE pow(gen, primes[Len(primes)], n)

RECURSIVE recompute_root(_, _, _)
\* recompute_root(primes, N, g): fold of add_member over the list of primes
recompute_root(primes, n, gen) ==
    IF n <= 0 \/ gen <= 0 \/ gen >= n THEN ERR
    ELSE IF primes = <<>> THEN gen
    ELSE LET k == Len(primes)
             A == recompute_root(SubSeq(primes, 1, k - 1), n, gen)
         IN IF primes[k] <= 0 \/ A = ERR THEN ERR ELSE pow(A, primes[k], n)

\* a faulty removal that hands back the accumulator it was given; C10 must
\* tell it from trapdoor_remove_member
trapdoor_remove_member_noop(A, prime, n, p, q) == A

\* a faulty removal that inverts the prime modulo N instead of lambda(N);
\* C25 must tell it from trapdoor_remove_member
trapdoor_remove_member_mod_n(A, prime, n, p, q) ==
    LET inv == modular_inverse(prime, n)
    IN IF inv = ERR THEN ERR ELSE pow(A, inv, n)

\* trapdoor_remove_member(A, prime, N, p, q) = A^(prime^{-1} mod lambda) mod N
trapdoor_remove_member(A, prime, n, p, q) ==
    IF A <= 0 \/ prime <= 0 \/ n <= 0 \/ p <= 0 \/ q <= 0 THEN ERR
    ELSE IF p * q # n THEN ERR
    ELSE IF prime >= n THEN ERR
    ELSE IF A >= n THEN ERR
    ELSE IF gcd(A, n) # 1 THEN ERR
    ELSE LET lam == compute_lambda_n(p, q)
             inv == modular_inverse(prime, lam)
         IN IF inv = ERR THEN ERR ELSE pow(A, inv, n)

\* trapdoor_remove_member_with_lambda(A, prime, N, lambda_n): the variant
\* that takes lambda(N) instead of the factors
trapdoor_remove_member_with_lambda(A, prime, n, lam) ==
    IF A <= 0 \/ prime <= 0 \/ n <= 0 \/ lam <= 0 THEN ERR
    ELSE LET inv == modular_inverse(prime % lam, lam)
         IN IF inv = ERR THEN ERR ELSE pow(A, inv, n)

\* update_witness_on_addition(old_witness, added_prime, N)
update_witness_on_addition(old_witness, added_prime, n) ==
    IF old_witness <= 0 \/ added_prime <= 0 \/ n <= 0 THEN ERR
    ELSE pow(old_witness, added_prime, n)

\* ------------------------------------------------------------------------
\* Hash to prime (src/accum/hash_to_prime.py)
\* ------------------------------------------------------------------------
\* _mr_is_probable_prime, exact on the model's range
mr_is_probable_prime(n) ==
    /\ n >= 2
    /\ \A d \in 2..n : (d * d <= n) => (n % d # 0)

\* SHA-256 of a key's DER bytes as an integer: a fixed table per key
DigestTable == <<12, 5, 16, 22, 28, 36>>
sha256(k) == DigestTable[k]

RECURSIVE next_prime_from(_)
\* the scan "cand += 2 until probable prime"
next_prime_from(cand) ==
    IF mr_is_probable_prime(cand) THEN cand ELSE next_prime_from(cand + 2)

\* hash_to_prime: the first candidate, from the digest d
hash_base(d) ==
    LET \* base |= 1 << (min_bits - 1), that bit being clear
        b1 == IF bit_length(d) < MIN_BITS THEN d + 2 ^ (MIN_BITS - 1) ELSE d
    IN IF b1 % 2 = 0 THEN b1 + 1 ELSE b1

\* hash_to_prime(data, min_bits)
hash_to_prime(k) == next_prime_from(hash_base(sha256(k)))

RECURSIVE coprime_scan(_, _)
\* the loop of hash_to_prime_coprime_lambda: step to the next probable
\* prime while gcd(x, lambda) # 1
coprime_scan(x, lam) ==
    IF gcd(x, lam) = 1 THEN x ELSE coprime_scan(next_prime_from(x + 2), lam)

\* hash_to_prime_coprime_lambda(data, lambda_n)
hash_to_prime_coprime_lambda(k, lam) == coprime_scan(hash_to_prime(k), lam)

RECURSIVE prime_scan(_, _, _)
\* the loop of hash_to_prime, "for _ in range(max_attempts)": the prime
\* found (ERR for the ValueError) and the candidates examined so far
prime_scan(cand, attempts_left, examined) ==
    IF attempts_left = 0 THEN [value |-> ERR, examined |-> examined]
    ELSE IF mr_is_probable_prime(cand)
    THEN [value |-> cand, examined |-> examined + 1]
    ELSE prime_scan(cand + 2, attempts_left - 1, examined + 1)

RECURSIVE step_to_prime(_, _)
\* the inner loop of hash_to_prime_coprime_lambda, "while not
\* _mr_is_probable_prime(x): x += 2", entered after "x += 2"
step_to_prime(x, examined) ==
    IF mr_is_probable_prime(x) THEN [value |-> x, examined |-> examined + 1]
    ELSE step_to_prime(x + 2, examined + 1)

RECURSIVE coprime_search(_, _, _, _, _)
\* the outer loop of hash_to_prime_coprime_lambda, "while tries <
\* max_attempts and gcd(x, lambda_n) != 1", and the check that follows it
coprime_search(x, lam, tries, max_attempts, examined) ==
    IF tries < max_attempts /\ gcd(x, lam) # 1
    THEN LET next == step_to_prime(x + 2, examined)
         IN coprime_search(next.value, lam, tries + 1, max_attempts,
                           next.examined)
    ELSE [value |-> IF gcd(x, lam) # 1 THEN ERR ELSE x,
          examined |-> examined]

\* hash_to_prime_coprime_lambda(data, lambda_n, max_attempts=...) for data
\* of digest d, with the count of candidates it examines
search_coprime_prime(d, lam, max_attempts) ==
    LET first == prime_scan(hash_base(d), max_attempts, 0)
    IN IF first.value = ERR THEN first
       ELSE coprime_search(first.value, lam, 0, max_attempts, first.examined)

\* ------------------------------------------------------------------------
\* State
\* ------------------------------------------------------------------------
VARIABLES
    app,                  \* which gateway application runs
    \* --- main.py gateway ---
    devices,              \* db table devices, by device id
    meta_root,            \* db meta ROOT_HEX
    meta_version,         \* db meta VERSION
    pending_multisig_txs, \* main.py's in-memory dict, by safeTxHash
    chain_accumulator,    \* registry contract: current accumulator
    chain_version,        \* registry contract: version
    safe_nonce,           \* Safe contract: nonce
    chain_executed,       \* safeTxHashes the Safe has executed (history)
    \* --- api_routes.py gateway ---
    device_table,         \* ORM table Device, by device id
    bc_current_root,      \* blockchain_client.current_root (cache)
    bc_contract,          \* blockchain_client.contract is loaded
    active_nonces,        \* api_routes.py's in-memory dict, by nonce
    next_nonce,           \* source of fresh nonces (generate_nonce)
    now,                  \* get_current_timestamp()
    \* --- the accumulator library used directly (src/accum tests) ---
    acc_A,                \* the accumulator value
    acc_witnesses,        \* the witness each enrolled key holds (0: none)
    acc_revoked,          \* the last revoked key with the witness it held
    \* --- utils.py RateLimiter ---
    requests,             \* self.requests: key -> list of timestamps
    admitted,             \* per key, the instants a request was admitted
                          \* (history)
    \* --- history ---
    pre_enroll,           \* root and witnesses before the latest commit,
                          \* when that commit was an enrolment
    \* --- last request served ---
    resp                  \* the response (with the request, when accepted)

vars == <<app, devices, meta_root, meta_version, pending_multisig_txs,
          chain_accumulator, chain_version, safe_nonce, chain_executed,
          device_table, bc_current_root, bc_contract, active_nonces,
          next_nonce, now, acc_A, acc_witnesses, acc_revoked, requests,
          admitted, pre_enroll, resp>>

limiterVars == <<requests, admitted>>

routesVars == <<device_table, bc_current_root, bc_contract, active_nonces,
                next_nonce, now>>

accumVars == <<acc_A, acc_witnesses, acc_revoked>>

mainVars == <<devices, meta_root, meta_version, pending_multisig_txs,
              chain_accumulator, chain_version, safe_nonce, chain_executed>>

\* DeviceStatus (supabase_db.py); NO_ROW stands for "no row with this id"
NO_ROW == 0
ACTIVE == 1
REVOKED == 2

NoDevice == [status |-> NO_ROW, id_prime |-> 0, witness |-> 0, pubkey_pem |-> 0]

\* Device.status values of the ORM model; "none" stands for "no row"
NoRow == [status |-> "none", pubkey |-> 0, prime_p |-> 0, last_witness |-> 0]

\* the response before any request
NoResp == [op |-> "none", dev |-> 0, code |-> 0]

\* bound on the number of entries of pending_multisig_txs
MaxTxs == 3

\* nonces a client may present
NumNonces == 1
Nonces == 1..NumNonces

\* a key pair that belongs to no device
OUTSIDER_KEY == 0
SignKeys == Keys \cup {OUTSIDER_KEY}

\* a signature names the private key that made it and the message signed
Sign(key, msg) == [signer |-> key, msg |-> msg]

\* verify_device_signature / verify_ed25519_signature
verify_device_signature(message, signature, public_key_pem) ==
    signature.signer = public_key_pem /\ signature.msg = message

\* keccak256 as an injective constructor
keccak(x) == <<"keccak", x>>

\* a faulty lookup that takes a REVOKED row for no row; C15 must tell it
\* from device_exists
device_exists_if_active(d) == devices[d].status = ACTIVE

\* db.device_exists / db.get_device
device_exists(d) == devices[d].status # NO_ROW

\* db.get_active_devices
get_active_devices == {d \in Keys : devices[d].status = ACTIVE}

\* chain.get_parent_hash(): hash of the contract's current accumulator
get_parent_hash == keccak(chain_accumulator)

\* ChainClient._execute_through_safe: the Safe transaction hash commits to
\* the call (function, device, new accumulator, parent hash) and the nonce
safe_tx_hash(fn, d, newAcc, parent, nonce) == <<fn, d, newAcc, parent, nonce>>

InitMain ==
    /\ devices = [d \in Keys |-> NoDevice]
    /\ chain_accumulator = g
    /\ chain_version = 0
    /\ safe_nonce = 0
    /\ chain_executed = {}
    /\ pending_multisig_txs = <<>>
    \* startup_event: _sync_blockchain_state()
    /\ meta_root = g
    /\ meta_version = 0

\* the cache before any sync: the string "0x"
EMPTY_ROOT == 0

InitRoutes ==
    /\ device_table = [d \in Keys |-> NoRow]
    /\ bc_current_root = EMPTY_ROOT
    /\ active_nonces = <<>>
    /\ next_nonce = 1
    /\ now = 0

NoRevoked == [key |-> 0, witness |-> 0, old_root |-> 0, new_root |-> 0]

\* no enrolment was the latest commit
NoEnroll == [key |-> 0, root |-> 0, witnesses |-> [k \in Keys |-> 0]]

InitAccum ==
    /\ pre_enroll = NoEnroll
    /\ acc_A = g
    /\ acc_witnesses = [k \in Keys |-> 0]
    /\ acc_revoked = NoRevoked

\* accumulator values a caller of the library may pass
CallRoots == 1 .. (N - 1)

\* exponents a caller may pass: sharing a factor with lambda(N), coprime to
\* it, and one that is not below N
CallPrimes == {2, 3, 5, 7, 13, 17, 23, 211}

\* the primes of the sets a caller may pass
ListPrimes == {7, 13, 17, 23}

\* most primes in one set
MaxList == 3

\* the lists of distinct primes a caller may pass, in every order
PrimeLists ==
    {l \in UNION {[1 .. k -> ListPrimes] : k \in 0 .. MaxList} :
        \A i, j \in DOMAIN l : i # j => l[i] # l[j]}

\* the digests of the data handed to the prime search
MaxDigest == 24
SearchDigests == 1 .. MaxDigest

\* the values of max_attempts handed to the prime search
MaxAttempts == 3

\* the arguments of one call of the library
CallInputs ==
    {[op |-> "call_cycle", A |-> A, p |-> p] :
        A \in CallRoots, p \in CallPrimes}
    \cup {[op |-> "call_recompute", primes |-> l] : l \in PrimeLists}
    \cup {[op |-> "call_search", digest |-> d, max_attempts |-> m] :
              d \in SearchDigests, m \in 1 .. MaxAttempts}

\* the keys (client addresses, device ids) requests are counted under
LimiterKeys == {"a", "b"}

\* RateLimiter(max_requests, window_seconds): 5 per 300 s for devices and
\* 20 per 60 s for addresses in the source, scaled
MAX_REQUESTS == 2
WINDOW_SECONDS == 2

\* the clock of the rate limiter stops here
MaxClock == 4

InitLimiter ==
    /\ requests = <<>>
    /\ admitted = [k \in LimiterKeys |-> <<>>]

Init ==
    /\ app \in {"main", "routes", "accum", "algebra", "limiter"}
    /\ InitAccum
    /\ InitLimiter
    \* blockchain_client.initialize() loads the contract or does not
    /\ bc_contract \in (IF app = "routes" THEN BOOLEAN ELSE {FALSE})
    /\ resp \in (IF app = "algebra" THEN CallInputs ELSE {NoResp})
    /\ InitMain
    /\ InitRoutes

\* room for one more entry in the dict, or the key is already there
TxRoom(h) ==
    \/ h \in DOMAIN pending_multisig_txs
    \/ Cardinality(DOMAIN pending_multisig_txs) < MaxTxs

\* POST /enroll (main.py enroll_device), for the key pair k
enroll_device(k) ==
    /\ app = "main"
    /\ LET device_id == k
           id_prime == hash_to_prime_coprime_lambda(k, lambda_n)
           current_root == meta_root
           new_root == add_member(current_root, id_prime, N)
           h == safe_tx_hash("registerDevice", device_id, new_root,
                             get_parent_hash, safe_nonce)
       IN IF device_exists(device_id)
          THEN /\ resp' = [op |-> "enroll", dev |-> device_id, code |-> 400]
               /\ UNCHANGED mainVars
          ELSE /\ TxRoom(h)
               /\ pending_multisig_txs' =
                    (h :> [operationType |-> "enroll",
                           device_id |-> device_id,
                           pubkey_pem |-> k,
                           id_prime |-> id_prime,
                           witness |-> current_root,
                           newAccumulator |-> new_root,
                           oldAccumulator |-> current_root,
                           parentHash |-> get_parent_hash,
                           nonce |-> safe_nonce,
                           signatures |-> {},
                           status |-> "pending"]) @@ pending_multisig_txs
               /\ resp' = [op |-> "enroll", dev |-> device_id, code |-> 202]
               /\ UNCHANGED <<devices, meta_root, meta_version,
                              chain_accumulator, chain_version, safe_nonce,
                              chain_executed>>
    /\ UNCHANGED <<limiterVars, app, pre_enroll, routesVars, accumVars>>

\* POST /revoke (main.py revoke_device), for the device id d
revoke_device(d) ==
    /\ app = "main"
    /\ LET device == devices[d]
           current_root == meta_root
           new_root == trapdoor_remove_member_with_lambda(
                           current_root, device.id_prime, N, lambda_n)
           h == safe_tx_hash("revokeDevice", d, new_root,
                             get_parent_hash, safe_nonce)
       IN IF ~device_exists(d) \/ device.status # ACTIVE \/ new_root = ERR
          THEN /\ resp' = [op |-> "revoke", dev |-> d, code |-> 400]
               /\ UNCHANGED mainVars
          ELSE /\ TxRoom(h)
               /\ pending_multisig_txs' =
                    (h :> [operationType |-> "revoke",
                           device_id |-> d,
                           pubkey_pem |-> 0,
                           id_prime |-> device.id_prime,
                           witness |-> 0,
                           newAccumulator |-> new_root,
                           oldAccumulator |-> current_root,
                           parentHash |-> get_parent_hash,
                           nonce |-> safe_nonce,
                           signatures |-> {},
                           status |-> "pending"]) @@ pending_multisig_txs
               /\ resp' = [op |-> "revoke", dev |-> d, code |-> 202]
               /\ UNCHANGED <<devices, meta_root, meta_version,
                              chain_accumulator, chain_version, safe_nonce,
                              chain_executed>>
    /\ UNCHANGED <<limiterVars, app, pre_enroll, routesVars, accumVars>>

\* The Safe executes a proposed transaction on the registry contract: the
\* Safe accepts it at its current nonce only, and the contract accepts it
\* only if its parent hash is the hash of the current accumulator.
safe_execTransaction(h) ==
    /\ app = "main"
    /\ h \in DOMAIN pending_multisig_txs
    /\ LET tx == pending_multisig_txs[h]
       IN /\ tx.nonce = safe_nonce
          /\ tx.parentHash = keccak(chain_accumulator)
          /\ chain_accumulator' = tx.newAccumulator
    /\ chain_version' = chain_version + 1
    /\ safe_nonce' = safe_nonce + 1
    /\ chain_executed' = chain_executed \cup {h}
    /\ UNCHANGED <<limiterVars, app, pre_enroll, devices, meta_root, meta_version,
                   pending_multisig_txs, resp, routesVars, accumVars>>

\* the witness refresh loop of execute_transaction: every ACTIVE row other
\* than skip gets trapdoor_remove_member_with_lambda(new_root, its prime)
refresh_active(devs, new_root, skip) ==
    [d \in Keys |->
        IF devs[d].status = ACTIVE /\ d # skip
        THEN LET fresh == trapdoor_remove_member_with_lambda(
                              new_root, devs[d].id_prime, N, lambda_n)
             IN [devs[d] EXCEPT !.witness = fresh]
        ELSE devs[d]]

\* the write of the persistence layer that fails while a request is served
WriteFailures == {"none", "insert", "status", "witness"}

\* the rows the witness refresh loop of execute_transaction writes
refreshed_rows(devs, skip) ==
    {j \in Keys : devs[j].status = ACTIVE /\ j # skip}

\* POST /multisig/execute (main.py execute_transaction); failed names the
\* write that fails: insert_device raises, update_device_status and
\* update_device_witness return False
execute_transaction(h, failed) ==
    /\ app = "main"
    /\ h \in DOMAIN pending_multisig_txs
    /\ LET tx == pending_multisig_txs[h]
           d == tx.device_id
           inserted == [devices EXCEPT ![d] =
                           [status |-> ACTIVE,
                            id_prime |-> tx.id_prime,
                            witness |-> tx.witness,
                            pubkey_pem |-> tx.pubkey_pem]]
           marked == [devices EXCEPT ![d].status = REVOKED]
           answer(c, f) == [op |-> "execute", dev |-> d, code |-> c,
                            safeTxHash |-> h, write_failed |-> f]
       IN \* writes fail while a transaction is executed the first time
          /\ failed # "none" => tx.status = "pending"
          /\ pending_multisig_txs' =
                [pending_multisig_txs EXCEPT ![h].status = "executed"]
          \* _sync_blockchain_state()
          /\ meta_root' = chain_accumulator
          /\ meta_version' = chain_version
          /\ IF tx.operationType = "enroll"
             THEN /\ failed # "status"
                  /\ failed = "witness" => refreshed_rows(inserted, d) # {}
                  /\ IF device_exists(d) \/ failed = "insert"
                     THEN \* insert_device raises: on the primary key, or
                          \* because the write fails
                          /\ devices' = devices
                          /\ resp' = answer(500, failed = "insert")
                          /\ UNCHANGED pre_enroll
                     ELSE /\ devices' =
                               IF failed = "witness" THEN inserted
                               ELSE refresh_active(inserted,
                                                   chain_accumulator, d)
                          /\ resp' = answer(200, failed = "witness")
                          /\ pre_enroll' =
                                 [key |-> d, root |-> tx.oldAccumulator,
                                  witnesses |->
                                      [j \in Keys |-> devices[j].witness]]
             ELSE /\ failed # "insert"
                  /\ failed = "witness" => refreshed_rows(marked, 0) # {}
                  /\ devices' =
                        IF failed = "status"
                        THEN refresh_active(devices, chain_accumulator, 0)
                        ELSE IF failed = "witness" THEN marked
                        ELSE refresh_active(marked, chain_accumulator, 0)
                  /\ resp' = answer(200, failed # "none")
                  /\ pre_enroll' = NoEnroll
    /\ UNCHANGED <<limiterVars, app, chain_accumulator, chain_version, safe_nonce,
                   chain_executed, routesVars, accumVars>>

\* number of Safe owners that sign
NumSigners == 1
Signers == 1 .. NumSigners

\* 'required_signatures' of a proposed transaction (3 in the source), scaled
REQUIRED_SIGNATURES == 1

\* most transactions that get signatures
MaxSigned == 1

\* the transactions that have a signature
Signed == {h \in DOMAIN pending_multisig_txs :
              pending_multisig_txs[h].signatures # {}}

\* POST /multisig/sign (main.py sign_transaction); the owners sign
\* transactions that still wait
sign_transaction(h, signer) ==
    /\ app = "main"
    /\ h \in DOMAIN pending_multisig_txs
    /\ pending_multisig_txs[h].status = "pending"
    /\ h \in Signed \/ Cardinality(Signed) < MaxSigned
    /\ IF signer \in pending_multisig_txs[h].signatures
       THEN /\ resp' = [op |-> "sign", dev |-> 0, code |-> 400]
            /\ UNCHANGED pending_multisig_txs
       ELSE /\ pending_multisig_txs' =
                 [pending_multisig_txs EXCEPT
                     ![h].signatures = @ \cup {signer}]
            /\ resp' = [op |-> "sign", dev |-> 0, code |-> 200]
    /\ UNCHANGED <<limiterVars, app, pre_enroll, devices, meta_root, meta_version,
                   chain_accumulator, chain_version, safe_nonce,
                   chain_executed, routesVars, accumVars>>

\* GET /root (main.py get_accumulator_root)
get_accumulator_root ==
    /\ app = "main"
    \* _sync_blockchain_state()
    /\ meta_root' = chain_accumulator
    /\ meta_version' = chain_version
    /\ resp' = [op |-> "root", dev |-> 0, code |-> 200,
                rootHex |-> chain_accumulator, version |-> chain_version]
    /\ UNCHANGED <<limiterVars, app, pre_enroll, devices, pending_multisig_txs, chain_accumulator,
                   chain_version, safe_nonce, chain_executed, routesVars,
                   accumVars>>

\* the response of a refused authentication
AuthRefused(d, c, why, w) ==
    [op |-> "auth", dev |-> d, code |-> c, ok |-> FALSE, reason |-> why,
     newWitness |-> w, nonce |-> 0, signature |-> Sign(OUTSIDER_KEY, 0),
     publicKeyPEM |-> OUTSIDER_KEY, witnessHex |-> 0]

\* the response of an accepted authentication, with the request it answers
AuthAccepted(d, w, nonce, sig, pem, witnessHex) ==
    [op |-> "auth", dev |-> d, code |-> 200, ok |-> TRUE, reason |-> "",
     newWitness |-> w, nonce |-> nonce, signature |-> sig,
     publicKeyPEM |-> pem, witnessHex |-> witnessHex]

\* witnesses a client may present for device d: the stored one, the one
\* that fits the gateway's root, and the generator
ClientWitnesses(d) ==
    {devices[d].witness, g} \cup
    (IF devices[d].id_prime > 0
     THEN {trapdoor_remove_member_with_lambda(meta_root, devices[d].id_prime,
                                               N, lambda_n)}
     ELSE {})

\* the requests a client makes for device d with nonce n: the honest one
\* (own prime, a witness, the nonce signed with the device key), and the
\* same with a wrong prime, a signature by another key, a signature over
\* another message, or another key's signature together with that key
AuthRequests(d, n) ==
    LET prime == devices[d].id_prime
        honest(w) == [idPrime |-> prime, witnessHex |-> w,
                      sig |-> Sign(d, n), pem |-> d]
    IN {honest(w) : w \in ClientWitnesses(d)} \cup
       {[honest(devices[d].witness) EXCEPT !.idPrime = g],
        [honest(devices[d].witness) EXCEPT !.sig = Sign(OUTSIDER_KEY, n)],
        [honest(devices[d].witness) EXCEPT !.sig = Sign(d, 0)],
        [honest(devices[d].witness) EXCEPT !.sig = Sign(OUTSIDER_KEY, n),
                                           !.pem = OUTSIDER_KEY]}

\* a faulty POST /auth that skips the check of the device's status; C3 must
\* tell it from authenticate_device
authenticate_any_status(d, idPrime, witnessHex, nonceHex, sig, publicKeyPEM) ==
    /\ app = "main"
    /\ LET device == devices[d]
           is_member == verify_membership(witnessHex, idPrime, meta_root, N)
           is_member_stored == verify_membership(device.witness, idPrime,
                                                 meta_root, N)
           new_witness == IF ~is_member \/ witnessHex # device.witness
                          THEN device.witness ELSE 0
       IN IF ~device_exists(d)
          THEN resp' = AuthRefused(d, 400, "not_found", 0)
          ELSE IF device.id_prime # idPrime
          THEN resp' = AuthRefused(d, 400, "prime", 0)
          ELSE IF ~is_member /\ ~is_member_stored
          THEN resp' = AuthRefused(d, 400, "membership", 0)
          ELSE IF ~verify_device_signature(nonceHex, sig, publicKeyPEM)
          THEN resp' = AuthRefused(d, 400, "signature", 0)
          ELSE resp' = AuthAccepted(d, new_witness, nonceHex, sig,
                                    publicKeyPEM, witnessHex)
    /\ UNCHANGED <<limiterVars, app, pre_enroll, mainVars, routesVars, accumVars>>

\* POST /auth (main.py authenticate_device)
authenticate_device(d, idPrime, witnessHex, nonceHex, sig, publicKeyPEM) ==
    /\ app = "main"
    /\ LET device == devices[d]
           current_root == meta_root
           is_member == verify_membership(witnessHex, idPrime,
                                          current_root, N)
           is_member_stored == verify_membership(device.witness, idPrime,
                                                 current_root, N)
           new_witness == IF ~is_member \/ witnessHex # device.witness
                          THEN device.witness ELSE 0
       IN IF ~device_exists(d)
          THEN resp' = AuthRefused(d, 400, "not_found", 0)
          ELSE IF device.status # ACTIVE
          THEN resp' = AuthRefused(d, 400, "not_active", 0)
          ELSE IF device.id_prime # idPrime
          THEN resp' = AuthRefused(d, 400, "prime", 0)
          ELSE IF ~is_member /\ ~is_member_stored
          THEN resp' = AuthRefused(d, 400, "membership", 0)
          ELSE IF ~verify_device_signature(nonceHex, sig, publicKeyPEM)
          THEN resp' = AuthRefused(d, 400, "signature", 0)
          ELSE resp' = AuthAccepted(d, new_witness, nonceHex, sig,
                                    publicKeyPEM, witnessHex)
    /\ UNCHANGED <<limiterVars, app, pre_enroll, mainVars, routesVars, accumVars>>

NextMain ==
    \/ \E k \in Keys : enroll_device(k)
    \/ \E d \in Keys : revoke_device(d)
    \/ \E h \in DOMAIN pending_multisig_txs : safe_execTransaction(h)
    \/ \E h \in DOMAIN pending_multisig_txs, signer \in Signers :
          sign_transaction(h, signer)
    \/ \E h \in DOMAIN pending_multisig_txs, failed \in WriteFailures :
          execute_transaction(h, failed)
    \/ get_accumulator_root
    \/ \E d \in Keys, n \in Nonces : \E r \in AuthRequests(d, n) :
          authenticate_device(d, r.idPrime, r.witnessHex, n, r.sig, r.pem)

\* ------------------------------------------------------------------------
\* api_routes.py gateway (with accumulator_service.py, blockchain.py)
\* ------------------------------------------------------------------------
\* nonce lifetime in seconds (auth_start / auth_verify)
NONCE_TTL == 300
\* the instants at which requests arrive
Times == {0, NONCE_TTL, NONCE_TTL + 1}
\* capacity in bits of int_to_bytes' default length, scaled with the modulus
INT_TO_BYTES_BITS == 7

\* int_to_bytes(value): ERR (ValueError) when the value does not fit
int_to_bytes(value) ==
    IF value < 0 \/ value >= 2 ^ INT_TO_BYTES_BITS THEN ERR ELSE value

\* is_expired(timestamp, ttl_seconds)
is_expired(timestamp, ttl_seconds) == (now - timestamp) > ttl_seconds

RECURSIVE active_primes_upto(_, _)
active_primes_upto(tbl, k) ==
    IF k = 0 THEN <<>>
    ELSE LET rest == active_primes_upto(tbl, k - 1)
         IN IF tbl[k].status = "active"
            THEN Append(rest, tbl[k].prime_p) ELSE rest

\* AccumulatorService.get_active_device_primes: one entry per active row
get_active_device_primes(tbl) == active_primes_upto(tbl, NumKeys)

\* AccumulatorService.compute_current_accumulator
compute_current_accumulator(tbl) ==
    recompute_root(get_active_device_primes(tbl), N, g)

\* [p for p in primes if p != x]
without_prime(primes, x) == SelectSeq(primes, LAMBDA p : p # x)

RECURSIVE set_to_list(_)
\* iteration over a python set
set_to_list(S) ==
    IF S = {} THEN <<>>
    ELSE LET x == CHOOSE y \in S : \A z \in S : y <= z
         IN <<x>> \o set_to_list(S \ {x})

\* refresh_witness(target_p, set_primes, N, g)
refresh_witness(target_p, set_primes, n, gen) ==
    IF target_p \notin set_primes \/ n <= 0 \/ gen <= 0 \/ target_p <= 0
    THEN ERR
    ELSE recompute_root(set_to_list(set_primes \ {target_p}), n, gen)

\* AccumulatorService.finalize_device_status
finalize_device_status(tbl, d, status) ==
    IF tbl[d].status = "none" THEN tbl
    ELSE [tbl EXCEPT ![d].status = status,
                     ![d].last_witness =
                         IF status = "revoked" THEN 0 ELSE @]

\* AccumulatorService.verify_device_membership(device_id, witness_hex)
verify_device_membership(tbl, d, witness) ==
    /\ tbl[d].status = "active"
    /\ verify_membership(witness, tbl[d].prime_p,
                         compute_current_accumulator(tbl), N)

\* POST /enroll (api_routes.py enroll_device) for device id d with key k;
\* anchor_ok tells whether blockchain_client.register_device returns
routes_enroll_device(d, k, anchor_ok) ==
    /\ app = "routes"
    /\ LET device_prime == hash_to_prime(k)
           current_primes == get_active_device_primes(device_table)
           old_accumulator == recompute_root(current_primes, N, g)
           new_accumulator == add_member(old_accumulator, device_prime, N)
           \* add_device_to_accumulator commits the row as "pending"
           added == [device_table EXCEPT ![d] =
                        [status |-> "pending", pubkey |-> k,
                         prime_p |-> device_prime,
                         last_witness |-> old_accumulator]]
       IN IF device_table[d].status # "none"
          THEN /\ resp' = [op |-> "enroll", dev |-> d, code |-> 409,
                           anchor |-> "none"]
               /\ UNCHANGED <<device_table, bc_current_root>>
          ELSE IF int_to_bytes(new_accumulator) = ERR
          THEN /\ device_table' = added
               /\ resp' = [op |-> "enroll", dev |-> d, code |-> 500,
                           anchor |-> "none"]
               /\ UNCHANGED bc_current_root
          ELSE IF ~bc_contract
          THEN /\ device_table' = added
               /\ resp' = [op |-> "enroll", dev |-> d, code |-> 201,
                           anchor |-> "none"]
               /\ UNCHANGED bc_current_root
          ELSE IF anchor_ok
          THEN /\ device_table' = finalize_device_status(added, d, "active")
               /\ resp' = [op |-> "enroll", dev |-> d, code |-> 201,
                           anchor |-> "ok"]
               /\ UNCHANGED bc_current_root
          ELSE /\ bc_current_root' = new_accumulator
               /\ device_table' = finalize_device_status(added, d, "active")
               /\ resp' = [op |-> "enroll", dev |-> d, code |-> 201,
                           anchor |-> "raised"]
    /\ UNCHANGED <<limiterVars, app, pre_enroll, mainVars, accumVars, bc_contract, active_nonces,
                   next_nonce, now>>

\* POST /revoke (api_routes.py revoke_device) for device id d
routes_revoke_device(d, anchor_ok) ==
    /\ app = "routes"
    /\ LET \* revoke_device_from_accumulator commits "pending-revoke"
           marked == [device_table EXCEPT ![d].status = "pending-revoke"]
           device_prime == device_table[d].prime_p
           remaining_primes ==
               without_prime(get_active_device_primes(marked), device_prime)
           new_accumulator == recompute_root(remaining_primes, N, g)
       IN IF device_table[d].status # "active"
          THEN /\ resp' = [op |-> "revoke", dev |-> d, code |-> 404,
                           anchor |-> "none"]
               /\ UNCHANGED <<device_table, bc_current_root>>
          ELSE IF int_to_bytes(new_accumulator) = ERR
          THEN /\ device_table' = marked
               /\ resp' = [op |-> "revoke", dev |-> d, code |-> 404,
                           anchor |-> "none"]
               /\ UNCHANGED bc_current_root
          ELSE IF ~bc_contract
          THEN /\ device_table' = marked
               /\ resp' = [op |-> "revoke", dev |-> d, code |-> 204,
                           anchor |-> "none"]
               /\ UNCHANGED bc_current_root
          ELSE IF anchor_ok
          THEN /\ device_table' = finalize_device_status(marked, d, "revoked")
               /\ resp' = [op |-> "revoke", dev |-> d, code |-> 204,
                           anchor |-> "ok"]
               /\ UNCHANGED bc_current_root
          ELSE /\ bc_current_root' = new_accumulator
               /\ device_table' = finalize_device_status(marked, d, "revoked")
               /\ resp' = [op |-> "revoke", dev |-> d, code |-> 204,
                           anchor |-> "raised"]
    /\ UNCHANGED <<limiterVars, app, pre_enroll, mainVars, accumVars, bc_contract, active_nonces,
                   next_nonce, now>>

\* a byte of the scaled encodings holds one hexadecimal digit
BYTE_BASE == 16
\* length in bytes of an encoded root (256 in the source), scaled
ROOT_BYTES == 3
\* length in bytes of a hash and of int_to_bytes' default (32 in the
\* source), scaled
WORD_BYTES == 2

RECURSIVE be_bytes(_, _)
\* value.to_bytes(length, "big"): exactly `length` bytes, zero padded
be_bytes(value, length) ==
    IF length = 0 THEN <<>>
    ELSE Append(be_bytes(value \div BYTE_BASE, length - 1), value % BYTE_BASE)

\* hex_to_bytes of a root's hex string: the bytes the string spells, no
\* padding; the strings the gateway holds are bytes_to_hex(int_to_bytes(v)),
\* of WORD_BYTES bytes
hex_to_bytes(value) == be_bytes(value, WORD_BYTES)

\* b'\x00' * 32
ZERO_BYTES == be_bytes(0, WORD_BYTES)

\* no parentHash in the request (the handler then sends 32 zero bytes)
NO_HASH == <<"none", <<>>>>

\* "0x" + "00" * 32, the hash _get_cached_root_hash gives without a root
ZERO_HASH == <<"zero", <<>>>>

\* the bytes the client hashes for the root it read
root_bytes(current_root) ==
    IF current_root = EMPTY_ROOT THEN ZERO_BYTES
    ELSE hex_to_bytes(current_root)

\* BlockchainClient.get_current_root: the cache when it holds a root, else
\* what the contract (or the roots table) returns, `fetched`; EMPTY_ROOT
\* stands for a read that fails or finds nothing
get_current_root(fetched) ==
    IF bc_current_root # EMPTY_ROOT THEN bc_current_root
    ELSE IF bc_contract THEN fetched
    ELSE EMPTY_ROOT

\* roots a caller of POST /accumulator/update may submit
NewRoots == {g, add_member(g, hash_to_prime(1), N)}

\* parent hashes a caller may submit
ParentHashes ==
    {NO_HASH} \cup {keccak(root_bytes(x)) : x \in {EMPTY_ROOT} \cup NewRoots}

\* the bytes of newRootHex that newRootHex[:8] keeps ("0x" and 3 of 32
\* bytes in the source), scaled
OP_ID_PREFIX == 1

\* operation_id = f"update-{request.newRootHex[:8]}"
update_operation_id(newRootHex) ==
    <<"update", SubSeq(hex_to_bytes(newRootHex), 1, OP_ID_PREFIX)>>

\* POST /accumulator/update (api_routes.py update_accumulator, with
\* BlockchainClient.update_accumulator); anchor_ok tells whether the
\* contract call returns
routes_update_accumulator(newRootHex, parentHash, fetched, anchor_ok) ==
    /\ app = "routes"
    /\ LET current_root == get_current_root(fetched)
           \* the hash the client expects: of 32 zero bytes for "0x"
           expected_parent_hash == keccak(root_bytes(current_root))
           \* the comparison of the client, made only with a contract
           mismatch == bc_contract /\ parentHash # NO_HASH
                       /\ parentHash # expected_parent_hash
           answer(c, a) == [op |-> "update", dev |-> 0, code |-> c,
                            anchor |-> a, mismatch |-> mismatch,
                            current_root |-> current_root,
                            newRootHex |-> newRootHex,
                            parentHash |-> parentHash,
                            operation_id |-> update_operation_id(newRootHex)]
       IN IF ~bc_contract
          THEN /\ resp' = answer(503, "none")
               /\ UNCHANGED bc_current_root
          ELSE IF parentHash # NO_HASH /\ current_root # EMPTY_ROOT
                  /\ parentHash # expected_parent_hash
          THEN /\ resp' = answer(409, "none")
               /\ bc_current_root' = current_root
          ELSE IF mismatch
          THEN \* the client raises "Parent hash mismatch"; the handler
               \* catches it and updates the cache
               /\ resp' = answer(200, "mismatch")
               /\ bc_current_root' = newRootHex
          ELSE IF anchor_ok
          THEN /\ resp' = answer(200, "ok")
               /\ bc_current_root' = current_root
          ELSE /\ resp' = answer(200, "raised")
               /\ bc_current_root' = newRootHex
    /\ UNCHANGED <<limiterVars, app, pre_enroll, mainVars, accumVars, device_table, bc_contract,
                   active_nonces, next_nonce, now>>

\* AccumulatorService._get_cached_root_hash, for the root read
get_cached_root_hash(current_root) ==
    IF current_root # EMPTY_ROOT THEN keccak(hex_to_bytes(current_root))
    ELSE ZERO_HASH

\* GET /accumulator (api_routes.py get_accumulator_info, with
\* AccumulatorService.get_accumulator_info): the root computed from the
\* active rows and the hash of the cached root; the read fills the cache
get_accumulator_info(fetched) ==
    /\ app = "routes"
    /\ LET current_root == get_current_root(fetched)
       IN /\ bc_current_root' = current_root
          /\ resp' = [op |-> "info", dev |-> 0, code |-> 200,
                      rootHex |-> compute_current_accumulator(device_table),
                      rootHash |-> get_cached_root_hash(current_root),
                      current_root |-> current_root,
                      activeDevices |->
                          Len(get_active_device_primes(device_table))]
    /\ UNCHANGED <<limiterVars, app, pre_enroll, mainVars, accumVars, device_table, bc_contract,
                   active_nonces, next_nonce, now>>

\* _cleanup_expired_nonces, on a nonce table
cleanup_expired_nonces(tbl) ==
    [n \in {m \in DOMAIN tbl : ~is_expired(tbl[m].created_at, NONCE_TTL)}
        |-> tbl[n]]

\* GET /auth/start (api_routes.py auth_start) for device id d
auth_start(d) ==
    /\ app = "routes"
    /\ next_nonce <= NumNonces
    /\ LET nonce == next_nonce
       IN /\ active_nonces' = cleanup_expired_nonces(
                 (nonce :> [device_id |-> d, created_at |-> now,
                            expires_at |-> now + NONCE_TTL, used |-> FALSE])
                 @@ active_nonces)
          /\ resp' = [op |-> "auth_start", dev |-> d, code |-> 200,
                      nonce |-> nonce]
    /\ next_nonce' = next_nonce + 1
    /\ UNCHANGED <<limiterVars, app, pre_enroll, mainVars, accumVars, device_table, bc_current_root,
                   bc_contract, now>>

\* no pubkey_pem in the request
NO_PEM == -1

\* AccumulatorService.refresh_device_witness: the new witness, ERR for None
refresh_device_witness(tbl, d) ==
    IF tbl[d].status # "active" THEN ERR
    ELSE LET all_primes == get_active_device_primes(tbl)
         IN refresh_witness(tbl[d].prime_p,
                            {all_primes[i] : i \in DOMAIN all_primes}, N, g)

\* a faulty consumption that leaves the nonce unused; C35 must tell it from
\* mark_used
mark_used_never(tbl, nonce) == tbl

\* auth_verify: nonce_data["used"] = True
mark_used(tbl, nonce) == [tbl EXCEPT ![nonce].used = TRUE]

\* POST /auth/verify (api_routes.py auth_verify)
auth_verify(d, nonce, sig, witness_hex, pubkey_pem) ==
    /\ app = "routes"
    /\ LET device == device_table[d]
           known == nonce \in DOMAIN active_nonces
           nonce_data == active_nonces[nonce]
           used_tbl == mark_used(active_nonces, nonce)
           pubkey_bytes == IF device.status # "none" THEN device.pubkey
                           ELSE pubkey_pem
           fresh == refresh_device_witness(device_table, d)
       IN IF ~known \/ nonce_data.used
          THEN /\ resp' = AuthRefused(d, 401, "nonce", 0)
               /\ UNCHANGED <<active_nonces, device_table>>
          ELSE IF is_expired(nonce_data.created_at, NONCE_TTL)
          THEN /\ active_nonces' =
                    [n \in DOMAIN active_nonces \ {nonce} |-> active_nonces[n]]
               /\ resp' = AuthRefused(d, 401, "nonce", 0)
               /\ UNCHANGED device_table
          ELSE IF nonce_data.device_id # d
          THEN /\ resp' = AuthRefused(d, 401, "nonce", 0)
               /\ UNCHANGED <<active_nonces, device_table>>
          ELSE IF pubkey_bytes = NO_PEM
          THEN /\ active_nonces' = used_tbl
               /\ resp' = AuthRefused(d, 400, "no_key", 0)
               /\ UNCHANGED device_table
          ELSE IF ~verify_device_signature(nonce, sig, pubkey_bytes)
          THEN /\ active_nonces' = used_tbl
               /\ resp' = AuthRefused(d, 401, "signature", 0)
               /\ UNCHANGED device_table
          ELSE IF verify_device_membership(device_table, d, witness_hex)
          THEN /\ active_nonces' = used_tbl
               /\ resp' = AuthAccepted(d, 0, nonce, sig, pubkey_pem,
                                       witness_hex)
               /\ UNCHANGED device_table
          ELSE IF device.status = "active" /\ fresh # ERR
          THEN /\ active_nonces' = used_tbl
               /\ device_table' =
                    [device_table EXCEPT ![d].last_witness = fresh]
               /\ resp' = AuthRefused(d, 200, "stale_witness", fresh)
          ELSE /\ active_nonces' = used_tbl
               /\ resp' = AuthRefused(d, 401, "membership", 0)
               /\ UNCHANGED device_table
    /\ UNCHANGED <<limiterVars, app, pre_enroll, mainVars, accumVars, bc_current_root, bc_contract,
                   next_nonce, now>>

\* time passes, to the instant t
Tick(t) ==
    /\ app = "routes"
    /\ t > now
    /\ now' = t
    /\ UNCHANGED <<limiterVars, app, pre_enroll, mainVars, accumVars, device_table, bc_current_root,
                   bc_contract, active_nonces, next_nonce, resp>>

\* witnesses a client may present for device id d
RoutesClientWitnesses(d) ==
    {device_table[d].last_witness, g} \cup
    (IF device_table[d].status = "active"
     THEN {refresh_device_witness(device_table, d)} ELSE {})

\* the requests a client makes for device id d with nonce n; the device
\* signs with the key it was enrolled with (its own key d before that)
AuthVerifyRequests(d, n) ==
    LET key == IF device_table[d].status # "none"
               THEN device_table[d].pubkey ELSE d
        honest(w) == [witness_hex |-> w, sig |-> Sign(key, n),
                      pem |-> NO_PEM]
        w0 == device_table[d].last_witness
    IN {honest(w) : w \in RoutesClientWitnesses(d)} \cup
       {[honest(w0) EXCEPT !.pem = key],
        [honest(w0) EXCEPT !.sig = Sign(OUTSIDER_KEY, n)],
        [honest(w0) EXCEPT !.sig = Sign(key, 0)],
        [honest(w0) EXCEPT !.sig = Sign(OUTSIDER_KEY, n),
                           !.pem = OUTSIDER_KEY]}

NextRoutes ==
    \/ \E d \in Keys, k \in Keys, anchor_ok \in BOOLEAN :
          routes_enroll_device(d, k, anchor_ok)
    \/ \E d \in Keys, anchor_ok \in BOOLEAN : routes_revoke_device(d, anchor_ok)
    \/ \E d \in Keys : auth_start(d)
    \/ \E d \in Keys, n \in Nonces : \E r \in AuthVerifyRequests(d, n) :
          auth_verify(d, n, r.sig, r.witness_hex, r.pem)
    \/ \E t \in Times : Tick(t)
    \/ \E fetched \in {EMPTY_ROOT, g} : get_accumulator_info(fetched)
    \/ \E r \in NewRoots, h \in ParentHashes, fetched \in {EMPTY_ROOT, g},
          anchor_ok \in BOOLEAN :
          routes_update_accumulator(r, h, fetched, anchor_ok)

\* ------------------------------------------------------------------------
\* The accumulator library used directly, as the tests of src/accum do
\* ------------------------------------------------------------------------
\* membership_witness(current_primes, target_p, N, g)
membership_witness(current_primes, target_p, n, gen) ==
    IF n <= 0 \/ gen <= 0 \/ gen >= n \/ target_p <= 1 THEN ERR
    ELSE IF current_primes = {} THEN gen
    ELSE recompute_root(set_to_list(current_primes \ {target_p}), n, gen)

\* the keys enrolled in the accumulator
acc_members == {k \in Keys : acc_witnesses[k] # 0}

\* the prime of key k
acc_prime(k) == hash_to_prime_coprime_lambda(k, lambda_n)

\* enrolment: the new member's witness is the old accumulator, the
\* accumulator is raised to its prime, and so is every other witness
accum_enroll(k) ==
    /\ app = "accum"
    /\ k \notin acc_members
    /\ acc_A' = add_member(acc_A, acc_prime(k), N)
    /\ acc_witnesses' =
         [j \in Keys |->
            IF j = k THEN acc_A
            ELSE IF j \in acc_members
                 THEN update_witness_on_addition(acc_witnesses[j],
                                                 acc_prime(k), N)
                 ELSE 0]
    /\ pre_enroll' = [key |-> k, root |-> acc_A, witnesses |-> acc_witnesses]
    /\ UNCHANGED <<limiterVars, app, mainVars, routesVars, acc_revoked, resp>>

\* revocation by the trapdoor: the accumulator loses the prime, and the
\* remaining members get membership_witness over the remaining primes
accum_revoke(k) ==
    /\ app = "accum"
    /\ k \in acc_members
    /\ LET A_new == trapdoor_remove_member(acc_A, acc_prime(k), N,
                                           P_FACTOR, Q_FACTOR)
           remaining == {acc_prime(j) : j \in acc_members \ {k}}
       IN /\ A_new # ERR
          /\ acc_A' = A_new
          /\ acc_witnesses' =
               [j \in Keys |->
                  IF j \in acc_members \ {k}
                  THEN membership_witness(remaining, acc_prime(j), N, g)
                  ELSE 0]
    /\ acc_revoked' = [key |-> k, witness |-> acc_witnesses[k],
                       old_root |-> acc_A, new_root |-> acc_A']
    /\ pre_enroll' = NoEnroll
    /\ UNCHANGED <<limiterVars, app, mainVars, routesVars, resp>>

NextAccum ==
    \/ \E k \in Keys : accum_enroll(k)
    \/ \E k \in Keys : accum_revoke(k)

\* ------------------------------------------------------------------------
\* Single calls of the pure functions, on the arguments drawn in Init
\* ------------------------------------------------------------------------
\* remove_member(A, p, N, trapdoor) with the trapdoor given
remove_member(A, p, n, trapdoor) ==
    IF A <= 0 \/ p <= 0 \/ n <= 0 THEN ERR
    ELSE trapdoor_remove_member(A, p, n, trapdoor[1], trapdoor[2])

\* the set of the elements of a list
list_set(l) == {l[i] : i \in DOMAIN l}

\* add_member, then remove_member of the same prime, and the removals of
\* the prime from the value itself
add_remove_cycle ==
    /\ app = "algebra"
    /\ resp.op = "call_cycle"
    /\ LET A_after_add == add_member(resp.A, resp.p, N)
       IN resp' = [op |-> "cycle", A |-> resp.A, p |-> resp.p,
                   A_after_add |-> A_after_add,
                   A_after_remove |->
                       remove_member(A_after_add, resp.p, N,
                                     <<P_FACTOR, Q_FACTOR>>),
                   removed |->
                       trapdoor_remove_member(resp.A, resp.p, N,
                                              P_FACTOR, Q_FACTOR),
                   removed_with_lambda |->
                       trapdoor_remove_member_with_lambda(resp.A, resp.p, N,
                                                          lambda_n)]
    /\ UNCHANGED <<limiterVars, app, pre_enroll, mainVars, routesVars, accumVars>>

\* recompute_root of a list of primes, and the trapdoor removal of each of
\* its primes from that root
recompute_call ==
    /\ app = "algebra"
    /\ resp.op = "call_recompute"
    /\ LET root == recompute_root(resp.primes, N, g)
       IN resp' = [op |-> "recompute", primes |-> resp.primes,
                   root |-> root,
                   removed |->
                       [x \in list_set(resp.primes) |->
                           trapdoor_remove_member(root, x, N,
                                                  P_FACTOR, Q_FACTOR)]]
    /\ UNCHANGED <<limiterVars, app, pre_enroll, mainVars, routesVars, accumVars>>

\* one call of hash_to_prime_coprime_lambda with the modulus' lambda
search_call ==
    /\ app = "algebra"
    /\ resp.op = "call_search"
    /\ LET found == search_coprime_prime(resp.digest, lambda_n,
                                         resp.max_attempts)
       IN resp' = [op |-> "search", digest |-> resp.digest,
                   max_attempts |-> resp.max_attempts,
                   value |-> found.value, examined |-> found.examined]
    /\ UNCHANGED <<limiterVars, app, pre_enroll, mainVars, routesVars, accumVars>>

NextAlgebra == add_remove_cycle \/ recompute_call \/ search_call

\* ------------------------------------------------------------------------
\* The rate limiter (src/gateway/utils.py RateLimiter)
\* ------------------------------------------------------------------------
\* a faulty filter that lets a timestamp leave the window a second early;
\* C39 must tell it from within_window
within_window_short(ts, t) == (t - ts) < WINDOW_SECONDS - 1

\* the filter of is_allowed and cleanup: (now - ts) < self.window_seconds
within_window(ts, t) == (t - ts) < WINDOW_SECONDS

\* [ts for ts in timestamps if (now - ts) < self.window_seconds]
clean_old_requests(timestamps, t) ==
    SelectSeq(timestamps, LAMBDA ts : within_window(ts, t))

\* RateLimiter.is_allowed(key), as the middleware calls it for a request
is_allowed(key) ==
    /\ app = "limiter"
    /\ LET kept == IF key \in DOMAIN requests
                   THEN clean_old_requests(requests[key], now) ELSE <<>>
           cleaned == [k \in DOMAIN requests \cup {key} |->
                          IF k = key THEN kept ELSE requests[k]]
       IN IF Len(kept) >= MAX_REQUESTS
          THEN /\ requests' = cleaned
               /\ resp' = [op |-> "is_allowed", dev |-> 0, code |-> 429,
                           key |-> key, allowed |-> FALSE]
               /\ UNCHANGED admitted
          ELSE /\ requests' = [cleaned EXCEPT ![key] = Append(kept, now)]
               /\ admitted' = [admitted EXCEPT ![key] = Append(@, now)]
               /\ resp' = [op |-> "is_allowed", dev |-> 0, code |-> 200,
                           key |-> key, allowed |-> TRUE]
    /\ UNCHANGED <<app, pre_enroll, mainVars, routesVars, accumVars>>

\* RateLimiter.cleanup()
cleanup ==
    /\ app = "limiter"
    /\ requests' =
          [k \in {j \in DOMAIN requests :
                     clean_old_requests(requests[j], now) # <<>>} |->
              clean_old_requests(requests[k], now)]
    /\ resp' = [op |-> "cleanup", dev |-> 0, code |-> 0]
    /\ UNCHANGED <<app, pre_enroll, mainVars, routesVars, accumVars,
                   admitted>>

\* a second passes on the clock get_current_timestamp() reads
second_passes ==
    /\ app = "limiter"
    /\ now < MaxClock
    /\ now' = now + 1
    /\ UNCHANGED <<app, pre_enroll, mainVars, accumVars, limiterVars,
                   device_table, bc_current_root, bc_contract,
                   active_nonces, next_nonce, resp>>

NextLimiter ==
    \/ \E key \in LimiterKeys : is_allowed(key)
    \/ cleanup
    \/ second_passes

Next == NextMain \/ NextRoutes \/ NextAccum \/ NextAlgebra \/ NextLimiter

Spec == Init /\ [][Next]_vars

\* ------------------------------------------------------------------------
\* Properties
\* ------------------------------------------------------------------------
RECURSIVE main_active_primes_upto(_)
\* the id_primes of the ACTIVE rows of main.py's db, by device id
main_active_primes_upto(k) ==
    IF k = 0 THEN <<>>
    ELSE LET rest == main_active_primes_upto(k - 1)
         IN IF devices[k].status = ACTIVE
            THEN Append(rest, devices[k].id_prime) ELSE rest

\* an authentication was answered OK
AuthOK == resp.op = "auth" /\ resp.ok

\* the public key stored for device d at enrolment
StoredKey(d) ==
    IF app = "main" THEN devices[d].pubkey_pem ELSE device_table[d].pubkey

\* the transactions of pending_multisig_txs that wait for signatures
Outstanding ==
    {h \in DOMAIN pending_multisig_txs :
        pending_multisig_txs[h].status = "pending"}

\* C1: every ACTIVE device's stored witness w satisfies
\* w^id_prime mod N = root, in the state main.py's gateway holds
C1_WitnessConsistency ==
    app = "main" =>
        \A d \in Keys :
            devices[d].status = ACTIVE =>
                pow(devices[d].witness, devices[d].id_prime, N) = meta_root

\* C2: the root equals g raised to the product of the id_primes of the
\* ACTIVE devices (g when there is none)
C2_RootOfActiveSet ==
    app = "main" =>
        meta_root = recompute_root(main_active_primes_upto(NumKeys), N, g)

C4_CommitOnlyOnConfirmation ==
    /\ app = "main" =>
        \A d \in Keys :
            /\ devices[d].status # NO_ROW =>
                 \E h \in chain_executed :
                    /\ pending_multisig_txs[h].operationType = "enroll"
                    /\ pending_multisig_txs[h].device_id = d
            /\ devices[d].status = REVOKED =>
                 \E h \in chain_executed :
                    /\ pending_multisig_txs[h].operationType = "revoke"
                    /\ pending_multisig_txs[h].device_id = d
    /\ (app = "routes" /\ resp.op = "enroll" /\ resp.anchor = "raised") =>
            device_table[resp.dev].status # "active"

\* C5: a revocation whose anchor call fails leaves every device's status
\* and witness and the cached root exactly as they were before it started
C5_AbortRestores ==
    [][(app = "routes" /\ resp' # resp /\ resp'.op = "revoke"
          /\ resp'.anchor = "raised")
          => (device_table' = device_table
              /\ bc_current_root' = bc_current_root)]_vars

\* C6: at most one administrative operation is outstanding at any time
C6_OneOutstanding == Cardinality(Outstanding) <= 1

\* C7: a nonce is accepted at most once: an accepted authentication is
\* never followed by another accepted one that presents the same nonce
C7_NonceOnce ==
    [][(AuthOK /\ resp'.op = "auth" /\ resp'.ok /\ resp' # resp)
          => resp'.nonce # resp.nonce]_vars

\* C8: authentication answers OK only when the nonce was issued by
\* auth_start for the same device
C8_NonceIssued ==
    AuthOK =>
        /\ app = "routes"
        /\ resp.nonce \in DOMAIN active_nonces
        /\ active_nonces[resp.nonce].device_id = resp.dev

\* C9: authentication answers OK only if the signature over the nonce
\* verifies under the public key stored for the device at enrolment
C9_StoredKeyOnly ==
    AuthOK =>
        verify_device_signature(resp.nonce, resp.signature,
                                StoredKey(resp.dev))

AuthRoot ==
    IF app = "main" THEN meta_root
    ELSE compute_current_accumulator(device_table)

\* the id_prime stored for device d
StoredPrime(d) ==
    IF app = "main" THEN devices[d].id_prime ELSE device_table[d].prime_p

\* C11: when the submitted witness fails against the current root and the
\* stored witness verifies, authentication is denied with STALE_WITNESS and
\* the response carries the stored witness; so an OK answers a submitted
\* witness that verifies, and a stale_witness answer is a denial carrying
\* the stored witness
C11_StaleWitnessDenied ==
    /\ AuthOK =>
          verify_membership(resp.witnessHex, StoredPrime(resp.dev), AuthRoot, N)
    /\ (app = "routes" /\ resp.op = "auth" /\ resp.reason = "stale_witness") =>
          /\ ~resp.ok
          /\ resp.newWitness = device_table[resp.dev].last_witness

\* C12: a submission whose parent hash differs from the hash of the current
\* root is rejected, and the local root and the device records stay as they
\* were
C12_ParentHashMismatchRejected ==
    [][(app = "routes" /\ resp' # resp /\ resp'.op = "update"
          /\ resp'.mismatch)
          => (/\ resp'.code = 409
              /\ bc_current_root' = resp'.current_root
              /\ device_table' = device_table)]_vars

\* the pending transactions of pending_multisig_txs for operation op on
\* device d
PendingFor(op, d) ==
    {h \in Outstanding : /\ pending_multisig_txs[h].operationType = op
                         /\ pending_multisig_txs[h].device_id = d}

\* C13: an enrolment for a device id that has a record, or an enrolment
\* awaiting confirmation, is refused and leaves records and pending
\* operations as they were
C13_DuplicateEnrollRefused ==
    [][(resp' # resp /\ resp'.op = "enroll") =>
         /\ (app = "main" /\ (device_exists(resp'.dev)
                               \/ PendingFor("enroll", resp'.dev) # {})) =>
                (/\ resp'.code = 400
                 /\ pending_multisig_txs' = pending_multisig_txs
                 /\ devices' = devices)
         /\ (app = "routes" /\ device_table[resp'.dev].status # "none") =>
                (resp'.code = 409 /\ device_table' = device_table)]_vars

\* C14: a revocation of a device that is not ACTIVE, or that has a
\* revocation awaiting confirmation, is refused and starts no submission
C14_RevokeNotActiveRefused ==
    [][(resp' # resp /\ resp'.op = "revoke") =>
         /\ (app = "main" /\ (devices[resp'.dev].status # ACTIVE
                               \/ PendingFor("revoke", resp'.dev) # {})) =>
                (/\ resp'.code = 400
                 /\ pending_multisig_txs' = pending_multisig_txs
                 /\ devices' = devices)
         /\ (app = "routes" /\ device_table[resp'.dev].status # "active") =>
                (/\ resp'.code = 404
                 /\ device_table' = device_table
                 /\ bc_current_root' = bc_current_root)]_vars

\* C15: once a device's status is REVOKED, no later request changes it
C15_RevokedIsTerminal ==
    [][\A d \in Keys :
         /\ devices[d].status = REVOKED => devices'[d].status = REVOKED
         /\ device_table[d].status = "revoked" =>
                device_table'[d].status = "revoked"]_vars

\* C15 witness: an enrolment was requested for a device that is REVOKED
\* and was refused
C15_EnrollOnRevoked ==
    /\ app = "main"
    /\ resp.op = "enroll" /\ resp.code = 400
    /\ devices[resp.dev].status = REVOKED

\* C16: no id_prime is held by two device records, whatever their status
C16_PrimesDistinct ==
    \A d1, d2 \in Keys :
        d1 # d2 =>
            /\ (device_exists(d1) /\ device_exists(d2)) =>
                   devices[d1].id_prime # devices[d2].id_prime
            /\ (device_table[d1].status # "none"
                   /\ device_table[d2].status # "none") =>
                   device_table[d1].prime_p # device_table[d2].prime_p

\* C17: every device ever enrolled has an id_prime coprime to lambda(N)
C17_PrimesCoprimeToLambda ==
    \A d \in Keys :
        /\ device_exists(d) => gcd(devices[d].id_prime, lambda_n) = 1
        /\ device_table[d].status # "none" =>
               gcd(device_table[d].prime_p, lambda_n) = 1

\* C18: the version counts the committed transitions: a step that commits
\* a change of the device records raises it by exactly one, and every other
\* step (a refused or pending request, a read) leaves it as it was
C18_VersionCountsCommits ==
    [][app = "main" =>
         IF devices' # devices
         THEN meta_version' = meta_version + 1
         ELSE meta_version' = meta_version]_vars

\* C19: right after a commit the parent hash for the next submission is
\* keccak256 of the current root encoded as exactly ROOT_BYTES big-endian
\* bytes: main.py reads it from the contract after its sync, api_routes.py
\* reports it as rootHash next to rootHex on the read that follows an
\* anchored enrolment or revocation and finds the committed root
C19_ParentHashOfPaddedRoot ==
    [][/\ (app = "main" /\ resp' # resp /\ resp'.op = "execute"
             /\ resp'.code = 200)
             => keccak(chain_accumulator') = keccak(meta_root')
       /\ (app = "routes" /\ resp.op \in {"enroll", "revoke"}
             /\ resp.anchor = "ok" /\ resp'.op = "info"
             /\ resp'.current_root = resp'.rootHex)
             => resp'.rootHash = keccak(be_bytes(resp'.rootHex, ROOT_BYTES))]_vars

\* every transaction main.py's gateway marked executed was executed by the
\* Safe
SafeExecutedAll ==
    \A h \in DOMAIN pending_multisig_txs :
        pending_multisig_txs[h].status = "executed" => h \in chain_executed

\* the root of the version main.py's device rows belong to
RootOfRecords == recompute_root(main_active_primes_upto(NumKeys), N, g)

\* C20: an authentication of main.py's gateway reads the root and the
\* device row of one committed version: the root it verifies against is the
\* root of the rows it reads the status and witness from
C20_SnapshotRead ==
    [][(app = "main" /\ SafeExecutedAll /\ resp' # resp
          /\ resp'.op = "auth")
          => meta_root = RootOfRecords]_vars

\* C21: auth_start issues and stores a nonce only for a device whose row
\* exists and is active; for any other device id it fails and the nonce
\* table is left as it was
C21_NonceOnlyForActive ==
    [][(app = "routes" /\ resp' # resp /\ resp'.op = "auth_start"
          /\ device_table[resp'.dev].status # "active")
          => (resp'.code # 200 /\ active_nonces' = active_nonces)]_vars

\* C22: when the commit of enroll(d) is followed by the commit of
\* revoke(d), the root is again the root before the enrolment and every
\* other device holds the witness it held before the enrolment
C22_EnrollRevokeRestores ==
    [][/\ (app = "accum" /\ pre_enroll.key # 0 /\ acc_revoked' # acc_revoked
             /\ acc_revoked'.key = pre_enroll.key)
             => /\ acc_A' = pre_enroll.root
                /\ \A j \in Keys \ {pre_enroll.key} :
                       acc_witnesses'[j] = pre_enroll.witnesses[j]
       /\ (app = "main" /\ pre_enroll.key # 0 /\ resp' # resp
             /\ resp'.op = "execute" /\ resp'.code = 200
             /\ resp'.dev = pre_enroll.key /\ pre_enroll' = NoEnroll)
             => /\ meta_root' = pre_enroll.root
                /\ \A j \in Keys \ {pre_enroll.key} :
                       devices'[j].witness = pre_enroll.witnesses[j]]_vars

\* C23: for every A in [1, N) coprime to N and every p with
\* gcd(p, lambda) = 1, remove_member(add_member(A, p), p) is A
C23_AddRemoveCycle ==
    (resp.op = "cycle" /\ gcd(resp.A, N) = 1 /\ gcd(resp.p, lambda_n) = 1)
        => resp.A_after_remove = resp.A

RECURSIVE fold_add(_, _)
\* add_member applied once per prime of the list, from A on
fold_add(primes, A) ==
    IF primes = <<>> THEN A
    ELSE fold_add(Tail(primes), add_member(A, Head(primes), N))

\* C24: recompute_root gives the same root for every ordering of a set of
\* primes, and that root is what add_member gives when applied to g once
\* per prime, in any order
C24_OrderIndependent ==
    resp.op = "recompute" =>
        \A l \in PrimeLists :
            list_set(l) = list_set(resp.primes) =>
                /\ recompute_root(l, N, g) = resp.root
                /\ fold_add(l, g) = resp.root

\* C24 witness: the root of a list of MaxList primes was computed
C24_ThreePrimesRecomputed ==
    /\ resp.op = "recompute"
    /\ Len(resp.primes) = MaxList
    /\ resp.root # g
    /\ resp.root # ERR

\* C25: for a set of enrolled primes each coprime to lambda, removing one
\* prime from the root by the trapdoor gives the root recomputed from g
\* over the remaining primes
C25_TrapdoorIsRecompute ==
    (resp.op = "recompute"
        /\ \A x \in list_set(resp.primes) : gcd(x, lambda_n) = 1)
        => \A x \in list_set(resp.primes) :
               resp.removed[x] =
                   recompute_root(without_prime(resp.primes, x), N, g)

\* C25 witness: 17 was removed from the root 196 of {13, 17, 23}, which
\* gave 168
C25_Removed17 ==
    /\ resp.op = "recompute"
    /\ list_set(resp.primes) = {13, 17, 23}
    /\ resp.root = 196
    /\ resp.removed[17] = 168
    /\ recompute_root(<<13, 23>>, N, g) = 168

\* C26: the trapdoor removal of a prime p with gcd(p, lambda) # 1 fails and
\* gives no root, whatever the accumulator value
C26_NotCoprimeFails ==
    (resp.op = "cycle" /\ gcd(resp.p, lambda_n) # 1)
        => /\ resp.removed = ERR
           /\ resp.A_after_remove = ERR
           /\ resp.removed_with_lambda = ERR

\* C26 witness: 5, which divides lambda(N), was added to g and its removal
\* was refused
C26_Prime5Refused ==
    /\ resp.op = "cycle"
    /\ resp.A = g
    /\ resp.p = 5
    /\ resp.A_after_add = pow(g, 5, N)
    /\ resp.A_after_add # ERR
    /\ resp.A_after_remove = ERR

\* C27: POST /multisig/execute changes the device table or the root only
\* for a transaction that has collected REQUIRED_SIGNATURES signatures of
\* distinct signers
C27_ExecuteNeedsSignatures ==
    [][(app = "main" /\ resp' # resp /\ resp'.op = "execute"
          /\ (devices' # devices \/ meta_root' # meta_root))
          => Cardinality(pending_multisig_txs[resp'.safeTxHash].signatures)
                 >= REQUIRED_SIGNATURES]_vars

\* C28: POST /multisig/execute for a transaction that was executed before
\* changes no device record, no witness, and neither root nor version
C28_ExecuteOnce ==
    [][(app = "main" /\ resp' # resp /\ resp'.op = "execute"
          /\ pending_multisig_txs[resp'.safeTxHash].status = "executed")
          => /\ devices' = devices
             /\ meta_root' = meta_root
             /\ meta_version' = meta_version]_vars

\* C29: POST /multisig/execute never reports success after a write of the
\* persistence layer failed while it committed
C29_WriteFailureReported ==
    (app = "main" /\ resp.op = "execute" /\ resp.write_failed)
        => resp.code # 200

\* C30: an authentication changes no stored witness, no device status and
\* neither root nor version, whatever its outcome, STALE_WITNESS included
C30_AuthChangesNothing ==
    [][(resp' # resp /\ resp'.op = "auth")
          => /\ device_table' = device_table
             /\ devices' = devices
             /\ meta_root' = meta_root
             /\ meta_version' = meta_version]_vars

\* C31: two submissions of POST /accumulator/update to the anchor that
\* carry the same operation_id carry the same payload (next root and
\* parent hash); stated for two submissions that follow each other
C31_OperationIdNamesPayload ==
    [][(app = "routes" /\ resp.op = "update" /\ resp.anchor = "ok"
          /\ resp'.op = "update" /\ resp'.anchor = "ok"
          /\ resp'.operation_id = resp.operation_id)
          => /\ resp'.newRootHex = resp.newRootHex
             /\ resp'.parentHash = resp.parentHash]_vars


\* The owners of the Safe execute a transaction the Safe accepts.
safe_executes == \E h \in DOMAIN pending_multisig_txs : safe_execTransaction(h)

\* The approval page posts /multisig/execute for a transaction the Safe
\* has executed and the gateway still lists as pending.
execution_reported ==
    \E h \in chain_executed :
        /\ pending_multisig_txs[h].status = "pending"
        /\ execute_transaction(h, "none")

\* The gateway runs no background task: a handler runs when its request
\* arrives. The fairness assumed is that of the deployment's clients: the
\* owners keep executing what the Safe accepts and the approval page
\* reports each execution to the gateway.
FairSpec == Spec /\ WF_vars(safe_executes) /\ WF_vars(execution_reported)

\* a transaction the Safe can never execute: another transaction consumed
\* its nonce, and the gateway still lists it as pending
RejectedPending ==
    /\ app = "main"
    /\ \E h \in DOMAIN pending_multisig_txs :
          /\ pending_multisig_txs[h].nonce < safe_nonce
          /\ h \notin chain_executed
          /\ pending_multisig_txs[h].status = "pending"

\* C32: a submitted admin operation the anchor has rejected (the Safe's
\* nonce has moved past it) eventually stops counting as pending
C32_RejectedLeavesPending == RejectedPending ~> ~RejectedPending


\* C33: when enroll(d) commits, the witness stored for d is the root as it
\* was immediately before the commit
C33_EnrollWitnessIsOldRoot ==
    [][/\ (app = "accum" /\ pre_enroll' # pre_enroll /\ pre_enroll'.key # 0)
             => acc_witnesses'[pre_enroll'.key] = acc_A
       /\ (app = "routes" /\ resp' # resp /\ resp'.op = "enroll"
             /\ resp'.code = 201
             /\ device_table'[resp'.dev].status = "active")
             => device_table'[resp'.dev].last_witness
                    = compute_current_accumulator(device_table)
       /\ (app = "main" /\ resp' # resp /\ resp'.op = "execute"
             /\ resp'.code = 200
             /\ pending_multisig_txs[resp'.safeTxHash].operationType
                    = "enroll")
             => IF resp'.safeTxHash \in chain_executed
                \* the contract took the transaction at the root whose
                \* hash is its parent hash
                THEN keccak(devices'[resp'.dev].witness)
                        = pending_multisig_txs[resp'.safeTxHash].parentHash
                ELSE devices'[resp'.dev].witness = meta_root]_vars


\* C34: when the enrolment of a prime p_new commits, the stored witness of
\* every other ACTIVE device becomes its previous witness raised to p_new
\* mod N
C34_OthersRaisedToNewPrime ==
    [][/\ (app = "accum" /\ pre_enroll' # pre_enroll /\ pre_enroll'.key # 0)
             => \A j \in acc_members :
                    acc_witnesses'[j]
                        = pow(acc_witnesses[j], acc_prime(pre_enroll'.key), N)
       /\ (app = "routes" /\ resp' # resp /\ resp'.op = "enroll"
             /\ resp'.code = 201 /\ resp'.anchor = "ok"
             /\ device_table'[resp'.dev].status = "active")
             => \A j \in DOMAIN device_table :
                    (j # resp'.dev /\ device_table[j].status = "active")
                        => device_table'[j].last_witness
                               = pow(device_table[j].last_witness,
                                     device_table'[resp'.dev].prime_p, N)
       /\ (app = "main" /\ resp' # resp /\ resp'.op = "execute"
             /\ resp'.code = 200
             /\ pending_multisig_txs[resp'.safeTxHash].operationType
                    = "enroll")
             => \A j \in Keys :
                    (j # resp'.dev /\ devices[j].status = ACTIVE)
                        => devices'[j].witness
                               = pow(devices[j].witness,
                                     devices'[resp'.dev].id_prime, N)]_vars


\* C35: an answer of /auth/verify other than the refusal of the nonce (the
\* attempt passed the nonce lookup) marks a nonce of that device used that
\* was unused before, whatever the later checks say, and a used nonce
\* never becomes unused: a retry with it cannot pass the lookup
C35_NonceConsumedPastLookup ==
    [][/\ (app = "routes" /\ resp'.op = "auth" /\ resp'.reason # "nonce"
             /\ (resp' # resp \/ active_nonces' # active_nonces))
             => \E n \in DOMAIN active_nonces :
                    /\ ~active_nonces[n].used
                    /\ active_nonces[n].device_id = resp'.dev
                    /\ active_nonces' =
                           [active_nonces EXCEPT ![n].used = TRUE]
       /\ app = "routes"
             => \A n \in DOMAIN active_nonces :
                    active_nonces[n].used
                        => (n \notin DOMAIN active_nonces'
                               \/ active_nonces'[n].used)]_vars

\* an attempt passed the nonce lookup, failed a later check, and its nonce
\* is used
C35_FailedAttemptConsumed ==
    /\ app = "routes" /\ resp.op = "auth" /\ ~resp.ok
    /\ resp.reason \in {"no_key", "signature", "membership"}
    /\ \E n \in DOMAIN active_nonces :
          active_nonces[n].used /\ active_nonces[n].device_id = resp.dev


\* the edges of the device lifecycle
LifecycleEdges ==
    {<<"none", "pending">>, <<"pending", "active">>,
     <<"pending", "revoked">>, <<"active", "pending-revoke">>,
     <<"pending-revoke", "revoked">>, <<"pending-revoke", "active">>}

\* a request handler commits a row once or twice: the change it leaves is
\* one edge, or two edges that follow each other
lifecycle_path(a, b) ==
    \/ <<a, b>> \in LifecycleEdges
    \/ \E m \in {"pending", "pending-revoke"} :
          <<a, m>> \in LifecycleEdges /\ <<m, b>> \in LifecycleEdges

\* the lifecycle status of device d in main.py's gateway, whose table
\* holds ACTIVE and REVOKED rows only: a device waits (PENDING,
\* PENDING_REVOKE) while a transaction for it is listed as pending
main_lifecycle_status(d, devs, txs) ==
    LET waits(type) == \E h \in DOMAIN txs :
                          /\ txs[h].device_id = d
                          /\ txs[h].operationType = type
                          /\ txs[h].status = "pending"
    IN IF devs[d].status = REVOKED THEN "revoked"
       ELSE IF devs[d].status = ACTIVE
       THEN IF waits("revoke") THEN "pending-revoke" ELSE "active"
       ELSE IF waits("enroll") THEN "pending" ELSE "none"

\* C36: every change of a device's status follows the lifecycle: creation
\* as PENDING, PENDING to ACTIVE or REVOKED, ACTIVE to PENDING_REVOKE,
\* PENDING_REVOKE to REVOKED or back to ACTIVE
C36_StatusFollowsLifecycle ==
    [][/\ app = "routes"
             => \A d \in DOMAIN device_table :
                    device_table'[d].status # device_table[d].status
                        => lifecycle_path(device_table[d].status,
                                          device_table'[d].status)
       /\ app = "main"
             => \A d \in Keys :
                    LET before == main_lifecycle_status(
                                      d, devices, pending_multisig_txs)
                        after == main_lifecycle_status(
                                     d, devices', pending_multisig_txs')
                    IN before # after => lifecycle_path(before, after)]_vars


\* C37: without an anchor (no contract loaded) an accepted enroll leaves
\* the device ACTIVE and an accepted revoke leaves it REVOKED, and the root
\* whose hash is the next parent hash is the new root
C37_NoAnchorCommitsAtOnce ==
    [][(app = "routes" /\ ~bc_contract /\ resp' # resp)
          => /\ (resp'.op = "enroll" /\ resp'.code = 201)
                  => /\ device_table'[resp'.dev].status = "active"
                     /\ bc_current_root' =
                           add_member(compute_current_accumulator(device_table),
                                      device_table'[resp'.dev].prime_p, N)
             /\ (resp'.op = "revoke" /\ resp'.code = 204)
                  => /\ device_table'[resp'.dev].status = "revoked"
                     /\ bc_current_root' =
                           compute_current_accumulator(device_table')]_vars


\* the candidates the search may examine: the first max_attempts odd
\* numbers from the first candidate on
SearchCandidates(d, max_attempts) ==
    {hash_base(d) + 2 * i : i \in 0 .. (max_attempts - 1)}

\* C38: the prime search examines at most max_attempts candidates and, if
\* none of them is both prime and coprime to lambda(N), fails
C38_SearchWithinAttempts ==
    resp.op = "search"
        => /\ resp.examined <= resp.max_attempts
           /\ (\A c \in SearchCandidates(resp.digest, resp.max_attempts) :
                   ~(mr_is_probable_prime(c) /\ gcd(c, lambda_n) = 1))
                 => resp.value = ERR


\* the requests of a history admitted in the window of WINDOW_SECONDS
\* seconds that starts at t
admitted_from(history, t) ==
    Cardinality({i \in DOMAIN history :
                    t <= history[i] /\ history[i] < t + WINDOW_SECONDS})

\* what a key may still be granted at the instant t: max_requests less
\* the recorded requests that have not left the window
allowance(reqs, key, t) ==
    IF key \notin DOMAIN reqs THEN MAX_REQUESTS
    ELSE MAX_REQUESTS
            - Cardinality({i \in DOMAIN reqs[key] :
                              t - reqs[key][i] < WINDOW_SECONDS})

\* C39: for each key at most max_requests requests are admitted within any
\* window of window_seconds; a request is admitted only when fewer than
\* max_requests admitted ones are still in the window; and a request
\* under one key takes nothing from the allowance of another key
C39_RateLimitPerKey ==
    [][app = "limiter"
          => /\ \A k \in LimiterKeys, t \in 0 .. MaxClock :
                    admitted_from(admitted'[k], t) <= MAX_REQUESTS
             /\ \A k \in LimiterKeys :
                    admitted'[k] # admitted[k]
                        => /\ admitted_from(admitted[k],
                                            now - WINDOW_SECONDS + 1)
                                 < MAX_REQUESTS
                           /\ \A j \in LimiterKeys \ {k} :
                                 /\ admitted'[j] = admitted[j]
                                 /\ allowance(requests', j, now)
                                       = allowance(requests, j, now)]_vars

\* a key that was admitted more than max_requests requests over time is
\* refused one, while the other key has been admitted requests too
C39_RefusedAfterWindowMoved ==
    /\ app = "limiter" /\ resp.op = "is_allowed" /\ ~resp.allowed
    /\ Len(admitted[resp.key]) > MAX_REQUESTS
    /\ \E j \in LimiterKeys \ {resp.key} : admitted[j] # <<>>

=============================================================================
